---- MODULE Spec2Model ----
(***************************************************************************)
(* Feedback-to-Code engine: the analysis pipeline (InsightEngine.analyze)  *)
(* over the two persisted collections, feedback_items and clusters,        *)
(* together with the operator endpoints that touch clusters.               *)
(*                                                                         *)
(* Every await of analyze is one step of the run that executes it, so a    *)
(* collaborator failure (database, classification call, mail delivery)     *)
(* can strike between any two persistence writes.                          *)
(***************************************************************************)
EXTENDS Integers, Sequences, FiniteSets, TLC

\* ------------------------------------------------------------------------
\* Bounds of the model
\* ------------------------------------------------------------------------
NItems == 2          \* feedback items that can be ingested
MaxFails == 1        \* database failures injected over a behaviour
MaxOps == 1          \* operator requests made over a behaviour
ChunkSize == 1       \* items per classification call (10 in the source, scaled)

\* ------------------------------------------------------------------------
\* Program constants
\* ------------------------------------------------------------------------
Threshold == 80          \* default SEVERITY_THRESHOLD
FallbackSeverity == 50   \* technical_severity of the fallback classification
DefaultBatchSize == 50   \* analyze's default batchSize

ItemIds == 1..NItems
ClusterIds == 1..(NItems + MaxFails + MaxOps)
Procs == {"api", "ingest"}          \* entry points that call analyze
IngestSevs == <<80, 77, 0>>         \* severities written at ingestion, by item
TechSevs == {0, 80, 150}            \* technical_severity values the classifier returns
BatchSizes == {DefaultBatchSize}
IngestKeywords == {"kw"}            \* keywords extracted from the content at ingestion

NoCluster == 0

\* ------------------------------------------------------------------------
\* Pure helpers
\* ------------------------------------------------------------------------
\* Math.round(n / d) for d > 0: round half up
Round(n, d) == (2 * n + d) \div (2 * d)

Max(a, b) == IF a >= b THEN a ELSE b
Min(a, b) == IF a <= b THEN a ELSE b

\* the pairs (technical_severity, currentSeverity) in 1..100 whose exact blend ends
\* in .5 while the double-precision sum t * 0.7 + s * 0.3 falls just below it, so
\* that Math.round returns the integer below
FloatTies ==
    {<<1, 36>>, <<1, 46>>, <<1, 96>>, <<2, 57>>, <<2, 67>>, <<2, 77>>, <<2, 87>>, <<2, 97>>,
     <<3, 18>>, <<6, 1>>, <<6, 11>>, <<6, 31>>, <<7, 2>>, <<7, 62>>, <<7, 72>>, <<7, 82>>,
     <<12, 7>>, <<12, 17>>, <<12, 57>>, <<12, 67>>, <<12, 77>>, <<14, 9>>, <<17, 2>>, <<17, 12>>,
     <<17, 62>>, <<19, 4>>, <<23, 8>>, <<23, 18>>, <<23, 48>>, <<24, 9>>, <<24, 19>>, <<24, 29>>,
     <<24, 39>>, <<24, 49>>, <<28, 3>>, <<28, 13>>, <<28, 23>>, <<29, 4>>, <<29, 14>>, <<29, 24>>,
     <<29, 34>>, <<33, 8>>, <<33, 18>>, <<34, 9>>, <<34, 19>>, <<38, 3>>, <<38, 13>>, <<39, 4>>,
     <<39, 14>>, <<46, 1>>, <<46, 11>>, <<46, 21>>, <<46, 31>>, <<46, 41>>, <<46, 51>>, <<48, 3>>,
     <<48, 13>>, <<48, 23>>, <<48, 33>>, <<48, 43>>, <<48, 53>>, <<48, 63>>, <<48, 73>>, <<48, 83>>,
     <<48, 93>>, <<51, 6>>, <<51, 16>>, <<51, 26>>, <<51, 36>>, <<51, 46>>, <<53, 8>>, <<53, 18>>,
     <<53, 28>>, <<53, 38>>, <<53, 48>>, <<53, 58>>, <<53, 68>>, <<53, 78>>, <<53, 88>>, <<56, 1>>,
     <<56, 11>>, <<56, 21>>, <<56, 31>>, <<56, 41>>, <<56, 51>>, <<58, 3>>, <<58, 13>>, <<58, 23>>,
     <<58, 33>>, <<58, 43>>, <<58, 53>>, <<58, 63>>, <<58, 73>>, <<61, 6>>, <<61, 16>>, <<61, 26>>,
     <<61, 36>>, <<61, 46>>, <<63, 8>>, <<63, 18>>, <<63, 28>>, <<63, 38>>, <<63, 48>>, <<63, 58>>,
     <<66, 1>>, <<66, 11>>, <<66, 21>>, <<66, 31>>, <<66, 41>>, <<66, 51>>, <<68, 3>>, <<68, 13>>,
     <<68, 23>>, <<68, 33>>, <<68, 43>>, <<68, 53>>, <<71, 6>>, <<71, 16>>, <<71, 26>>, <<71, 36>>,
     <<71, 46>>, <<73, 8>>, <<73, 18>>, <<73, 28>>, <<73, 38>>, <<76, 1>>, <<76, 11>>, <<76, 21>>,
     <<76, 31>>, <<78, 3>>, <<78, 13>>, <<78, 23>>, <<81, 6>>, <<81, 16>>, <<83, 8>>, <<83, 18>>,
     <<85, 10>>, <<86, 1>>, <<86, 11>>, <<88, 3>>, <<92, 7>>, <<92, 17>>, <<92, 27>>, <<92, 37>>,
     <<92, 47>>, <<92, 57>>, <<92, 67>>, <<92, 77>>, <<92, 87>>, <<92, 97>>, <<96, 1>>, <<96, 11>>,
     <<96, 21>>, <<96, 31>>, <<96, 41>>, <<96, 51>>, <<96, 61>>, <<96, 71>>, <<96, 81>>, <<96, 91>>,
     <<97, 2>>, <<97, 12>>, <<97, 22>>, <<97, 32>>, <<97, 42>>, <<97, 52>>, <<97, 62>>, <<97, 72>>,
     <<97, 82>>, <<97, 92>>}

\* Blend keeping the severity written at ingestion
BlendKeepsOld(t, s) == IF s = 0 THEN 50 ELSE s

\* classifyItems: Math.round(technical_severity * 0.7 + (normalized_severity || 50) * 0.3)
Blend(t, s) ==
    LET currentSeverity == IF s = 0 THEN 50 ELSE s
        exact == Round(7 * t + 3 * currentSeverity, 10)
    IN IF <<t, currentSeverity>> \in FloatTies THEN exact - 1 ELSE exact

\* updateClusterMetrics with the weights of the average and the maximum exchanged
AggregateSwapped(sum, n, max) == Round(6 * sum + 4 * max * n, 10 * n)

\* updateClusterMetrics: Math.round(avgSeverity * 0.4 + maxSeverity * 0.6), with
\* avgSeverity = sum / n
Aggregate(sum, n, max) == Round(4 * sum + 6 * max * n, 10 * n)

PriorityOf(agg) ==
    IF agg >= 90 THEN "critical"
    ELSE IF agg >= 75 THEN "high"
    ELSE IF agg >= 50 THEN "medium"
    ELSE "low"

\* a schema without bounds on normalized_severity
UnboundedItemSeverity(s) == s = s

\* FeedbackItemSchema: normalized_severity has min 0, max 100
ValidItemSeverity(s) == s >= 0 /\ s <= 100

\* the fallback object with a technical_severity that leaves the severity alone
FallbackNoSeverity == [ftype |-> "unknown", sent |-> 0, tech |-> 0,
                       kw |-> {}, summary |-> "", null |-> FALSE]

\* the classifier's fallback object
FallbackResult == [ftype |-> "unknown", sent |-> 0, tech |-> FallbackSeverity,
                   kw |-> {}, summary |-> "", null |-> FALSE]
\* an element of the parsed response that is null (or absent)
NullResult == [ftype |-> "unknown", sent |-> 0, tech |-> 0, kw |-> {}, summary |-> "",
               null |-> TRUE]
\* a classification the model returned, with its one-sentence summary
LLMResult(t) == [ftype |-> "bug", sent |-> -1, tech |-> t, kw |-> {"llm"},
                 summary |-> "Crash on launch", null |-> FALSE]
ResultSet == {LLMResult(t) : t \in TechSevs} \cup {NullResult}

\* parsed responses for a chunk of n items: any array of at most n elements
Responses(n) == UNION {[1..m -> ResultSet] : m \in 0..n}

\* ------------------------------------------------------------------------
\* Severity normalization (normalizeSeverity and its helpers). Severities are
\* carried in thousandths until the final Math.round, so that the fractional
\* weights (0.8 per upvote, 0.005 per view, 7.5 per unit of sentiment) are
\* whole numbers; sentiment scores are in tenths, times in hours.
\* ------------------------------------------------------------------------
Milli == 1000

SEVERITY_WEIGHTS ==
    [APP_STORE |-> [STAR_TO_SEVERITY |-> <<95, 75, 50, 25, 10>>, DEFAULT_SEVERITY |-> 50],
     PRODUCT_HUNT |-> [BASE_SEVERITY |-> 40, UPVOTE_WEIGHT |-> 800,
                       MAX_UPVOTE_CONTRIBUTION |-> 40, MAKER_REPLY_REDUCTION |-> 10],
     REDDIT |-> [BASE_SEVERITY |-> 35, SCORE_MULTIPLIER |-> 8, COMMENT_WEIGHT |-> 300,
                 MAX_COMMENT_CONTRIBUTION |-> 20],
     STACK_OVERFLOW |-> [BASE_SEVERITY |-> 30, SCORE_WEIGHT |-> 3, VIEW_WEIGHT |-> 5,
                         MAX_VIEW_CONTRIBUTION |-> 30, ACCEPTED_ANSWER_REDUCTION |-> 25],
     QUORA |-> [BASE_SEVERITY |-> 35, UPVOTE_WEIGHT |-> 500, MAX_UPVOTE_CONTRIBUTION |-> 35,
                FOLLOWER_BOOST_THRESHOLD |-> 1000, FOLLOWER_BOOST |-> 10],
     MANUAL_UPLOAD |-> [DEFAULT_SEVERITY |-> 50],
     GLOBAL |-> [RECENCY_24H_BOOST |-> 10, RECENCY_7D_BOOST |-> 5, SENTIMENT_MULTIPLIER |-> 15,
                 MIN_SEVERITY |-> 0, MAX_SEVERITY |-> 100]]

\* REDDIT.SUBREDDIT_BOOSTS, in thousandths
SUBREDDIT_BOOSTS == [reactjs |-> 1200, webdev |-> 1100, programming |-> 1000]

\* a text is a sequence of characters
UpperCase == <<"A", "B", "C", "D", "E", "F", "G", "H", "I", "J", "K", "L", "M",
               "N", "O", "P", "Q", "R", "S", "T", "U", "V", "W", "X", "Y", "Z">>
LowerCase == <<"a", "b", "c", "d", "e", "f", "g", "h", "i", "j", "k", "l", "m",
               "n", "o", "p", "q", "r", "s", "t", "u", "v", "w", "x", "y", "z">>

\* String.prototype.toLowerCase
ToLowerCase(text) ==
    [k \in 1..Len(text) |->
        IF \E n \in 1..Len(UpperCase) : UpperCase[n] = text[k]
        THEN LowerCase[CHOOSE n \in 1..Len(UpperCase) : UpperCase[n] = text[k]]
        ELSE text[k]]

\* String.prototype.includes
Includes(text, word) ==
    \E k \in 0..(Len(text) - Len(word)) : SubSeq(text, k + 1, k + Len(word)) = word

\* Object.entries(BASE_KEYWORD_WEIGHTS), in insertion order
BASE_KEYWORD_WEIGHTS == <<
    [keyword |-> <<"c", "r", "a", "s", "h">>, weight |-> 40],
    [keyword |-> <<"p", "a", "n", "i", "c">>, weight |-> 40],
    [keyword |-> <<"f", "a", "t", "a", "l">>, weight |-> 40],
    [keyword |-> <<"d", "a", "t", "a", " ", "l", "o", "s", "s">>, weight |-> 40],
    [keyword |-> <<"s", "e", "c", "u", "r", "i", "t", "y">>, weight |-> 40],
    [keyword |-> <<"b", "r", "e", "a", "c", "h">>, weight |-> 40],
    [keyword |-> <<"e", "m", "e", "r", "g", "e", "n", "c", "y">>, weight |-> 40],
    [keyword |-> <<"c", "r", "i", "t", "i", "c", "a", "l">>, weight |-> 30],
    [keyword |-> <<"e", "r", "r", "o", "r">>, weight |-> 20],
    [keyword |-> <<"e", "x", "c", "e", "p", "t", "i", "o", "n">>, weight |-> 20],
    [keyword |-> <<"f", "a", "i", "l">>, weight |-> 20],
    [keyword |-> <<"t", "i", "m", "e", "o", "u", "t">>, weight |-> 20],
    [keyword |-> <<"s", "l", "o", "w">>, weight |-> 15],
    [keyword |-> <<"s", "t", "u", "c", "k">>, weight |-> 15],
    [keyword |-> <<"u", "r", "g", "e", "n", "t">>, weight |-> 20],
    [keyword |-> <<"b", "r", "o", "k", "e", "n">>, weight |-> 15],
    [keyword |-> <<"b", "u", "g">>, weight |-> 10],
    [keyword |-> <<"i", "s", "s", "u", "e">>, weight |-> 5],
    [keyword |-> <<"p", "r", "o", "b", "l", "e", "m">>, weight |-> 5],
    [keyword |-> <<"w", "e", "i", "r", "d">>, weight |-> 5]>>

\* applyKeywordBoost's loop over the first n keywords adding the weights up
RECURSIVE SumBoost(_, _)
SumBoost(lowerContent, n) ==
    IF n = 0 THEN 0
    ELSE IF Includes(lowerContent, BASE_KEYWORD_WEIGHTS[n].keyword)
         THEN SumBoost(lowerContent, n - 1) + BASE_KEYWORD_WEIGHTS[n].weight
         ELSE SumBoost(lowerContent, n - 1)

\* applyKeywordBoost's loop over the first n keywords: maxBoost
RECURSIVE MaxBoost(_, _)
MaxBoost(lowerContent, n) ==
    IF n = 0 THEN 0
    ELSE IF Includes(lowerContent, BASE_KEYWORD_WEIGHTS[n].keyword)
         THEN Max(MaxBoost(lowerContent, n - 1), BASE_KEYWORD_WEIGHTS[n].weight)
         ELSE MaxBoost(lowerContent, n - 1)

applyKeywordBoost(currentSeverity, content) ==
    currentSeverity + MaxBoost(ToLowerCase(content), Len(BASE_KEYWORD_WEIGHTS)) * Milli

\* the metadata fields the normalizers read, at their destructuring defaults
\* (star_rating 0: not provided)
NoMeta == [star_rating |-> 0, upvotes |-> 0, maker_reply |-> FALSE, reddit_score |-> 0,
           comment_count |-> 0, subreddit |-> "", so_score |-> 0, view_count |-> 0,
           is_accepted |-> FALSE, quora_upvotes |-> 0, follower_count |-> 0]

\* options without sentimentScore, postedAt and content (an absent value is <<>>)
NoOptions == [sentimentScore |-> <<>>, postedAt |-> <<>>, content |-> <<>>]

normalizeAppStoreSeverity(meta) ==
    IF meta.star_rating >= 1 /\ meta.star_rating <= 5
    THEN SEVERITY_WEIGHTS.APP_STORE.STAR_TO_SEVERITY[meta.star_rating] * Milli
    ELSE SEVERITY_WEIGHTS.APP_STORE.DEFAULT_SEVERITY * Milli

normalizeProductHuntSeverity(meta) ==
    LET weights == SEVERITY_WEIGHTS.PRODUCT_HUNT IN
    weights.BASE_SEVERITY * Milli
    + Min(meta.upvotes * weights.UPVOTE_WEIGHT, weights.MAX_UPVOTE_CONTRIBUTION * Milli)
    - (IF meta.maker_reply THEN weights.MAKER_REPLY_REDUCTION * Milli ELSE 0)

\* Math.log10 in thousandths, on the powers of ten the scores of the model reach
Log10Milli(n) == CASE n = 1 -> 0 [] n = 10 -> 1000 [] n = 100 -> 2000

\* subreddit.toLowerCase() on the names of the model
LowerName(name) == CASE name = "ReactJS" -> "reactjs" [] OTHER -> name

normalizeRedditSeverity(meta) ==
    LET weights == SEVERITY_WEIGHTS.REDDIT
        base == weights.BASE_SEVERITY * Milli
                + (IF meta.reddit_score > 0
                   THEN Log10Milli(meta.reddit_score + 1) * weights.SCORE_MULTIPLIER
                   ELSE 0)
                + Min(meta.comment_count * weights.COMMENT_WEIGHT,
                      weights.MAX_COMMENT_CONTRIBUTION * Milli)
        sub == LowerName(meta.subreddit)
    IN IF meta.subreddit # "" /\ sub \in DOMAIN SUBREDDIT_BOOSTS
       THEN (base * SUBREDDIT_BOOSTS[sub]) \div Milli
       ELSE base

normalizeStackOverflowSeverity(meta) ==
    LET weights == SEVERITY_WEIGHTS.STACK_OVERFLOW IN
    weights.BASE_SEVERITY * Milli
    + meta.so_score * weights.SCORE_WEIGHT * Milli
    + Min(meta.view_count * weights.VIEW_WEIGHT, weights.MAX_VIEW_CONTRIBUTION * Milli)
    - (IF meta.is_accepted THEN weights.ACCEPTED_ANSWER_REDUCTION * Milli ELSE 0)

normalizeQuoraSeverity(meta) ==
    LET weights == SEVERITY_WEIGHTS.QUORA IN
    weights.BASE_SEVERITY * Milli
    + Min(meta.quora_upvotes * weights.UPVOTE_WEIGHT, weights.MAX_UPVOTE_CONTRIBUTION * Milli)
    + (IF meta.follower_count >= weights.FOLLOWER_BOOST_THRESHOLD
       THEN weights.FOLLOWER_BOOST * Milli ELSE 0)

\* applyGlobalModifiers evaluated when Date.now() is now
applyGlobalModifiers(baseSeverity, options, now) ==
    LET weights == SEVERITY_WEIGHTS.GLOBAL
        hoursSincePost == now - options.postedAt[1]
        recency == IF options.postedAt = <<>> THEN 0
                   ELSE IF hoursSincePost <= 24 THEN weights.RECENCY_24H_BOOST * Milli
                   ELSE IF hoursSincePost <= 168 THEN weights.RECENCY_7D_BOOST * Milli
                   ELSE 0
        sentimentBoost == IF options.sentimentScore = <<>> THEN 0
                          ELSE ((10 - options.sentimentScore[1])
                                * weights.SENTIMENT_MULTIPLIER * Milli) \div 20
        severity == baseSeverity + recency + sentimentBoost
    IN IF options.content # <<>> THEN applyKeywordBoost(severity, options.content)
       ELSE severity

\* normalizeSeverity evaluated when Date.now() is now
normalizeSeverity(source, meta, options, now) ==
    LET base == CASE source = "app_store" -> normalizeAppStoreSeverity(meta)
                  [] source = "product_hunt" -> normalizeProductHuntSeverity(meta)
                  [] source = "reddit" -> normalizeRedditSeverity(meta)
                  [] source = "stack_overflow" -> normalizeStackOverflowSeverity(meta)
                  [] source = "quora" -> normalizeQuoraSeverity(meta)
                  [] source = "manual_upload" ->
                        SEVERITY_WEIGHTS.MANUAL_UPLOAD.DEFAULT_SEVERITY * Milli
                  [] OTHER -> 50 * Milli
        severity == applyGlobalModifiers(base, options, now)
    IN Round(Max(SEVERITY_WEIGHTS.GLOBAL.MIN_SEVERITY * Milli,
                 Min(SEVERITY_WEIGHTS.GLOBAL.MAX_SEVERITY * Milli, severity)), Milli)

\* ------------------------------------------------------------------------
\* Inputs the pure functions are evaluated on
\* ------------------------------------------------------------------------
Sources == {"app_store", "product_hunt", "reddit", "quora", "stack_overflow",
            "manual_upload", "custom"}

Metas(source) ==
    CASE source = "app_store" -> {[NoMeta EXCEPT !.star_rating = r] : r \in 0..6}
      [] source = "product_hunt" ->
            {[NoMeta EXCEPT !.upvotes = u, !.maker_reply = m] :
                u \in {0, 10, 50, 100}, m \in BOOLEAN}
      [] source = "reddit" ->
            {[NoMeta EXCEPT !.reddit_score = r, !.comment_count = c, !.subreddit = s] :
                r \in {-5, 0, 9, 99}, c \in {0, 10, 100},
                s \in {"", "ReactJS", "webdev", "programming", "other"}}
      [] source = "stack_overflow" ->
            {[NoMeta EXCEPT !.so_score = r, !.view_count = v, !.is_accepted = a] :
                r \in {-20, 0, 5, 40}, v \in {0, 1000, 10000}, a \in BOOLEAN}
      [] source = "quora" ->
            {[NoMeta EXCEPT !.quora_upvotes = u, !.follower_count = f] :
                u \in {0, 10, 100}, f \in {0, 1000}}
      [] OTHER -> {NoMeta}

\* contents: "Crash on launch", "crash issue", "issue", "App is SLOW", "debug build", "great app", "data loss!", "critical error" and the empty text
Contents ==
    {<<>>,
     <<"C", "r", "a", "s", "h", " ", "o", "n", " ", "l", "a", "u", "n", "c", "h">>,
     <<"c", "r", "a", "s", "h", " ", "i", "s", "s", "u", "e">>,
     <<"i", "s", "s", "u", "e">>,
     <<"A", "p", "p", " ", "i", "s", " ", "S", "L", "O", "W">>,
     <<"d", "e", "b", "u", "g", " ", "b", "u", "i", "l", "d">>,
     <<"g", "r", "e", "a", "t", " ", "a", "p", "p">>,
     <<"d", "a", "t", "a", " ", "l", "o", "s", "s", "!">>,
     <<"c", "r", "i", "t", "i", "c", "a", "l", " ", "e", "r", "r", "o", "r">>}

Sentiments == {-10, 0, 5, 10}       \* sentimentScore, in tenths
PostedAts == {0, 100}               \* postedAt, in hours
Nows == {10, 150, 400}              \* Date.now(), in hours

OptionSet ==
    [sentimentScore : {<<>>} \cup {<<s>> : s \in Sentiments},
     postedAt : {<<>>} \cup {<<h>> : h \in PostedAts},
     content : {<<>>, <<"c", "r", "a", "s", "h">>, <<"i", "s", "s", "u", "e">>}]

\* updateClusterMetrics on the severities of a cluster's members
RECURSIVE SeqSum(_)
SeqSum(q) == IF q = <<>> THEN 0 ELSE q[1] + SeqSum(Tail(q))

RECURSIVE SeqMax(_)
SeqMax(q) == IF Len(q) = 1 THEN q[1] ELSE Max(q[1], SeqMax(Tail(q)))

MetricsOf(severities) ==
    LET agg == Aggregate(SeqSum(severities), Len(severities), SeqMax(severities)) IN
    [total |-> Len(severities), max |-> SeqMax(severities),
     agg |-> agg, priority |-> PriorityOf(agg)]

VARIABLES
    items,      \* feedback_items collection: id -> document
    clusters,   \* clusters collection: id -> document (status "none": not stored)
    usedCids,   \* cluster _ids handed out so far
    fails,      \* database failures injected so far
    ops,        \* operator requests made so far
    sendCalls,  \* history: sendCriticalAlert calls made per cluster
    missed,     \* history: clusters whose alert was skipped or threw
    pc,         \* per run: position in analyze
    opts,       \* per run: {batchSize, skipAlerts}
    pend,       \* per run: pendingItems (ids, fetch order)
    docs,       \* per run: the in-memory item documents of pendingItems
    ci,         \* per run: classifyItems' i (1-based start of the chunk)
    cj,         \* per run: classifyItems' j (1-based position in the chunk)
    resp,       \* per run: classifications returned for the current chunk
    classified, \* per run: classifiedItems (ids)
    created,    \* per run: updatedClusters (cluster ids)
    cdoc,       \* per run: the in-memory cluster documents (aggregate, alert_sent)
    cur,        \* per run: _id of the cluster clusterItems is building
    ck,         \* per run: loop index of clusterItems / of the alert loop
    result,     \* per run: the AnalysisResult
    outcome,    \* per run: "none" | "resolved" | "rejected"
    hist,       \* per run: history of the run's collaborator outcomes
    fn          \* the last evaluation of a pure function: its inputs and its result

vars == <<items, clusters, usedCids, fails, ops, sendCalls, missed, pc, opts, pend, docs, ci, cj,
          resp, classified, created, cdoc, cur, ck, result, outcome, hist, fn>>

runVars == <<pc, opts, pend, docs, ci, cj, resp, classified, created, cdoc, cur, ck,
             result, outcome, hist>>

NoItem == [status |-> "absent", sev |-> 0, ftype |-> "unknown", sent |-> {},
           kw |-> {}, cid |-> NoCluster]
NoClusterDoc == [status |-> "none", title |-> "", fix |-> FALSE,
                 agg |-> 0, priority |-> "medium", members |-> <<>>,
                 alert_sent |-> FALSE, alert_sent_at |-> FALSE,
                 total |-> 0, avg |-> 0, max |-> 0, trend |-> "stable"]

NoMem == [agg |-> 0, alert_sent |-> FALSE]

NewResult == [success |-> TRUE, itemsClassified |-> 0, clustersCreated |-> 0,
              alertsSent |-> 0, errors |-> <<>>]
\* history of one run: what its collaborators did (read by the properties only)
NoHist == [llmThrew |-> {},      \* items of the chunks whose call threw
           unparsed |-> {},      \* items of the chunks whose response did not parse
           calls |-> 0,          \* calls made to the classification capability
           saveFailed |-> {},    \* items whose save in classifyItems rejected
           batchFailed |-> {},   \* chunks (by start index) that classifyItems' catch ended
           persisted |-> {},     \* clusters this run stored
           sendFailed |-> {},    \* clusters whose alert was not delivered
           sendOk |-> {},        \* clusters whose alert was delivered
           stage |-> "none",     \* the stage whose failure ended the run
           snap |-> [i \in ItemIds |-> NoItem]]   \* the items as fetched
DefaultOpts == [batchSize |-> DefaultBatchSize, skipAlerts |-> FALSE]
\* no pure function evaluated yet
NoFn == [op |-> "none"]

Init ==
    /\ items = [i \in ItemIds |-> NoItem]
    /\ clusters = [c \in ClusterIds |-> NoClusterDoc]
    /\ usedCids = {}
    /\ fails = 0
    /\ ops = 0
    /\ sendCalls = [c \in ClusterIds |-> 0]
    /\ missed = {}
    /\ pc = [p \in Procs |-> "idle"]
    /\ opts = [p \in Procs |-> DefaultOpts]
    /\ pend = [p \in Procs |-> <<>>]
    /\ docs = [p \in Procs |-> [i \in ItemIds |-> NoItem]]
    /\ ci = [p \in Procs |-> 1]
    /\ cj = [p \in Procs |-> 1]
    /\ resp = [p \in Procs |-> <<>>]
    /\ classified = [p \in Procs |-> <<>>]
    /\ created = [p \in Procs |-> <<>>]
    /\ cdoc = [p \in Procs |-> [c \in ClusterIds |-> NoMem]]
    /\ cur = [p \in Procs |-> NoCluster]
    /\ ck = [p \in Procs |-> 1]
    /\ result = [p \in Procs |-> NewResult]
    /\ outcome = [p \in Procs |-> "none"]
    /\ hist = [p \in Procs |-> NoHist]
    /\ fn = NoFn

\* no analyze run is in progress
Quiescent == \A p \in Procs : pc[p] = "idle"

\* a database call may fail while the failure budget lasts
CanFail == fails < MaxFails

\* the severity the ingestion collaborator computed for item i
InitSev(i) == IngestSevs[((i - 1) % Len(IngestSevs)) + 1]

\* a fresh ObjectId for the cluster built for item i: any _id not handed out
\* before (the item's own number when free, else the least free one)
FreshCid(i) ==
    IF i \notin usedCids THEN i
    ELSE CHOOSE c \in ClusterIds \ usedCids : \A o \in ClusterIds \ usedCids : c <= o

\* ------------------------------------------------------------------------
\* Queries
\* ------------------------------------------------------------------------
\* does a come before b in find({status:'pending'}).sort({normalized_severity:-1})
\* (equal severities in _id order)
Before(a, b) ==
    \/ items[a].sev > items[b].sev
    \/ items[a].sev = items[b].sev /\ a < b

PendingIds == {i \in ItemIds : items[i].status = "pending"}

\* the pending ids in sort order
SortedPending ==
    [k \in 1..Cardinality(PendingIds) |->
        CHOOSE i \in PendingIds :
            Cardinality({o \in PendingIds : Before(o, i)}) = k - 1]

\* FetchPending without the status filter: every stored item, in _id order
FetchStored(batchSize) ==
    LET S == {i \in ItemIds : items[i].status # "absent"}
        seq == [k \in 1..Cardinality(S) |->
                  CHOOSE i \in S : Cardinality({o \in S : o < i}) = k - 1]
    IN SubSeq(seq, 1, Min(batchSize, Cardinality(S)))

\* FeedbackItem.find({status:'pending'}).sort(...).limit(batchSize)
FetchPending(batchSize) ==
    SubSeq(SortedPending, 1, Min(batchSize, Cardinality(PendingIds)))

\* items.slice(i, i + chunkSize)
Chunk(p) == SubSeq(pend[p], ci[p], Min(ci[p] + ChunkSize - 1, Len(pend[p])))

\* ------------------------------------------------------------------------
\* Ingestion (collaborator): a new pending item with its initial severity.
\* Ingestion commutes with every step of a run but its fetch, so it is taken
\* between runs.
\* ------------------------------------------------------------------------
Ingest(i) ==
    /\ Quiescent
    /\ items[i].status = "absent"
    /\ \A o \in ItemIds : o < i => items[o].status # "absent"
    /\ items' = [items EXCEPT ![i] = [NoItem EXCEPT !.status = "pending", !.sev = InitSev(i),
                                                    !.kw = IngestKeywords]]
    /\ UNCHANGED <<clusters, usedCids, fails, ops, sendCalls, missed>>
    /\ UNCHANGED runVars
    /\ UNCHANGED fn

\* ------------------------------------------------------------------------
\* analyze
\* ------------------------------------------------------------------------
\* the options each entry point passes: /api/analyze (and the CLI script) pass the
\* caller's batchSize and skipAlerts, /api/ingest with autoAnalyze passes
\* skipAlerts: true and a batchSize of at least 20 (like the default, more than
\* the items there are)
EntryOpts(p) ==
    IF p = "ingest"
    THEN {[batchSize |-> DefaultBatchSize, skipAlerts |-> TRUE]}
    ELSE [batchSize : BatchSizes, skipAlerts : BOOLEAN]

\* a run starts; runs are serialized by the caller
Start(p) ==
    /\ Quiescent
    /\ \E o \in EntryOpts(p) : opts' = [opts EXCEPT ![p] = o]
    /\ pc' = [pc EXCEPT ![p] = "connect"]
    /\ UNCHANGED <<items, clusters, usedCids, fails, ops, sendCalls, missed, pend, docs, ci, cj, resp,
                   classified, created, cdoc, cur, ck, result, outcome, hist>>
    /\ UNCHANGED fn

\* the catch of analyze: success = false, the message is pushed, the result returned
Caught(p, stage) ==
    /\ result' = [result EXCEPT ![p].success = FALSE,
                                ![p].errors = Append(@, "fatal")]
    /\ hist' = [hist EXCEPT ![p].stage = stage]
    /\ pc' = [pc EXCEPT ![p] = "done"]
    /\ outcome' = [outcome EXCEPT ![p] = "resolved"]

\* await connectToDatabase(), before the try block: a failure rejects analyze
Connect(p) ==
    /\ pc[p] = "connect"
    /\ \/ /\ pc' = [pc EXCEPT ![p] = "fetch"]
          /\ result' = [result EXCEPT ![p] = NewResult]
          /\ UNCHANGED <<fails, outcome, hist>>
       \/ /\ CanFail
          /\ fails' = fails + 1
          /\ pc' = [pc EXCEPT ![p] = "done"]
          /\ outcome' = [outcome EXCEPT ![p] = "rejected"]
          /\ hist' = [hist EXCEPT ![p].stage = "connect"]
          /\ UNCHANGED result
    /\ UNCHANGED <<ops, items, clusters, usedCids, sendCalls, missed, opts, pend, docs, ci, cj, resp,
                   classified, created, cdoc, cur, ck>>
    /\ UNCHANGED fn

\* Step 1: fetch the pending items
Fetch(p) ==
    /\ pc[p] = "fetch"
    /\ \/ /\ CanFail
          /\ fails' = fails + 1
          /\ Caught(p, "fetch")
          /\ UNCHANGED <<pend, docs, ci>>
       \/ /\ pend' = [pend EXCEPT ![p] = FetchPending(opts[p].batchSize)]
          /\ docs' = [docs EXCEPT ![p] = items]
          /\ hist' = [hist EXCEPT ![p].snap = items]
          /\ ci' = [ci EXCEPT ![p] = 1]
          /\ IF PendingIds = {}
             THEN /\ pc' = [pc EXCEPT ![p] = "done"]
                  /\ outcome' = [outcome EXCEPT ![p] = "resolved"]
             ELSE /\ pc' = [pc EXCEPT ![p] = "batch"]
                  /\ UNCHANGED outcome
          /\ UNCHANGED <<fails, result>>
    /\ UNCHANGED <<ops, items, clusters, usedCids, sendCalls, missed, opts, cj, resp, classified,
                   created, cdoc, cur, ck>>
    /\ UNCHANGED fn

\* Step 2, classifyItems: the loop over chunks. classifyBatch makes one call to the
\* classification capability; it catches a throwing call and an unparsable
\* response alike and returns the fallback object for every item of the chunk.
ClassifyBatch(p) ==
    /\ pc[p] = "batch"
    /\ IF ci[p] > Len(pend[p])
       THEN /\ result' = [result EXCEPT ![p].itemsClassified = Len(classified[p])]
            /\ pc' = [pc EXCEPT ![p] = "cluster"]
            /\ UNCHANGED <<resp, cj, hist>>
       ELSE /\ pc' = [pc EXCEPT ![p] = "item"]
            /\ cj' = [cj EXCEPT ![p] = 1]
            /\ UNCHANGED result
            /\ LET chunk == Chunk(p)
                   ids == {chunk[n] : n \in 1..Len(chunk)}
                   fallback == [n \in 1..Len(chunk) |-> FallbackResult]
               IN \/ /\ resp' = [resp EXCEPT ![p] = fallback]
                     /\ hist' = [hist EXCEPT ![p].llmThrew = @ \cup ids,
                                             ![p].calls = @ + 1]
                  \/ /\ resp' = [resp EXCEPT ![p] = fallback]
                     /\ hist' = [hist EXCEPT ![p].unparsed = @ \cup ids,
                                             ![p].calls = @ + 1]
                  \/ /\ \E r \in Responses(Len(chunk)) : resp' = [resp EXCEPT ![p] = r]
                     /\ hist' = [hist EXCEPT ![p].calls = @ + 1]
    /\ UNCHANGED <<items, clusters, usedCids, fails, ops, sendCalls, missed, opts, pend, docs, ci,
                   classified, created, cdoc, cur, ck, outcome>>
    /\ UNCHANGED fn

\* Classify leaving the severity as it was
ClassifyWithoutSeverity(doc, c) ==
    [doc EXCEPT !.ftype = c.ftype,
                !.sent = {c.sent},
                !.kw = IF c.kw # {} THEN doc.kw \cup c.kw ELSE doc.kw]

\* the document classifyItems holds in memory after applying classification c
Classify(doc, c) ==
    [doc EXCEPT !.ftype = c.ftype,
                !.sent = {c.sent},
                !.sev = IF c.tech > 0 THEN Blend(c.tech, doc.sev) ELSE doc.sev,
                !.kw = IF c.kw # {} THEN doc.kw \cup c.kw ELSE doc.kw]

\* The catch of classifyItems: the rest of the chunk is skipped, the error is logged
BatchCaught(p, i) ==
    /\ hist' = [hist EXCEPT ![p].saveFailed = @ \cup {i},
                            ![p].batchFailed = @ \cup {ci[p]}]
    /\ ci' = [ci EXCEPT ![p] = ci[p] + ChunkSize]
    /\ pc' = [pc EXCEPT ![p] = "batch"]
    /\ UNCHANGED <<ops, items, classified, cj>>

\* classifyItems, the loop over the items of a chunk
ClassifyItem(p) ==
    /\ pc[p] = "item"
    /\ LET chunk == Chunk(p) IN
       IF cj[p] > Len(chunk)
       THEN /\ ci' = [ci EXCEPT ![p] = ci[p] + ChunkSize]
            /\ pc' = [pc EXCEPT ![p] = "batch"]
            /\ UNCHANGED <<items, docs, classified, cj, hist, fails>>
       ELSE LET i == chunk[cj[p]] IN
            IF cj[p] > Len(resp[p]) \/ resp[p][cj[p]].null
            THEN /\ cj' = [cj EXCEPT ![p] = cj[p] + 1]
                 /\ UNCHANGED <<items, docs, classified, ci, pc, hist, fails>>
            ELSE LET doc == Classify(docs[p][i], resp[p][cj[p]]) IN
                 /\ docs' = [docs EXCEPT ![p][i] = doc]
                 /\ IF ~ValidItemSeverity(doc.sev)
                    THEN \* item.save() rejects with a validation error
                         /\ BatchCaught(p, i)
                         /\ UNCHANGED fails
                    ELSE \/ /\ items' = [items EXCEPT ![i].ftype = doc.ftype,
                                                      ![i].sent = doc.sent,
                                                      ![i].sev = doc.sev,
                                                      ![i].kw = doc.kw]
                            /\ classified' = [classified EXCEPT ![p] = Append(@, i)]
                            /\ cj' = [cj EXCEPT ![p] = cj[p] + 1]
                            /\ UNCHANGED <<ci, pc, hist, fails>>
                         \/ /\ CanFail
                            /\ fails' = fails + 1
                            /\ BatchCaught(p, i)
    /\ UNCHANGED <<ops, clusters, usedCids, sendCalls, missed, opts, pend, resp, created, cdoc, cur,
                   ck, result, outcome>>
    /\ UNCHANGED fn

\* Step 3, clusterItems: nothing to do for an empty list, else the existing
\* clusters are read and the loop starts
ClusterBegin(p) ==
    /\ pc[p] = "cluster"
    /\ IF Len(classified[p]) = 0
       THEN /\ pc' = [pc EXCEPT ![p] = "alert"]
            /\ ck' = [ck EXCEPT ![p] = 1]
            /\ UNCHANGED <<result, hist, outcome, fails>>
       ELSE \/ /\ pc' = [pc EXCEPT ![p] = "csave"]
               /\ ck' = [ck EXCEPT ![p] = 1]
               /\ UNCHANGED <<result, hist, outcome, fails>>
            \/ /\ CanFail
               /\ fails' = fails + 1
               /\ Caught(p, "cluster")
               /\ UNCHANGED ck
    /\ UNCHANGED <<ops, items, clusters, usedCids, sendCalls, missed, opts, pend, docs, ci, cj, resp,
                   classified, created, cdoc, cur>>
    /\ UNCHANGED fn

\* item.summary: FeedbackItemSchema has no summary path and classifyItems copies
\* none from the classification, so the property is undefined (here "")
ItemSummary(doc) == ""

\* `Issue reported via ${item.source}`
DefaultTitle == "Issue reported via source"

\* const title = item.summary || `Issue reported via ${item.source}`
ClusterTitle(doc) == IF ItemSummary(doc) # "" THEN ItemSummary(doc) ELSE DefaultTitle

\* a new cluster that lists no item
NewClusterWithoutItem(doc, i) ==
    [status |-> "active", title |-> ClusterTitle(doc), fix |-> FALSE,
     agg |-> doc.sev, priority |-> "medium", members |-> <<>>,
     alert_sent |-> FALSE, alert_sent_at |-> FALSE,
     total |-> 1, avg |-> doc.sev, max |-> doc.sev, trend |-> "stable"]

\* new Cluster({...}) for item i as clusterItems builds it
NewCluster(doc, i) ==
    [status |-> "active", title |-> ClusterTitle(doc), fix |-> FALSE,
     agg |-> doc.sev, priority |-> "medium", members |-> <<i>>,
     alert_sent |-> FALSE, alert_sent_at |-> FALSE,
     total |-> 1, avg |-> doc.sev, max |-> doc.sev, trend |-> "stable"]

\* clusterItems, loop head and the first cluster.save()
ClusterSave(p) ==
    /\ pc[p] = "csave"
    /\ IF ck[p] > Len(classified[p])
       THEN /\ result' = [result EXCEPT ![p].clustersCreated = Len(created[p])]
            /\ pc' = [pc EXCEPT ![p] = "alert"]
            /\ ck' = [ck EXCEPT ![p] = 1]
            /\ UNCHANGED <<clusters, usedCids, cur, cdoc, hist, outcome, fails>>
       ELSE LET i == classified[p][ck[p]] IN
            IF docs[p][i].status = "clustered"
            THEN /\ ck' = [ck EXCEPT ![p] = ck[p] + 1]
                 /\ UNCHANGED <<clusters, usedCids, cur, cdoc, result, hist, outcome,
                                fails, pc>>
            ELSE \/ /\ clusters' = [clusters EXCEPT ![FreshCid(i)] = NewCluster(docs[p][i], i)]
                    /\ cur' = [cur EXCEPT ![p] = FreshCid(i)]
                    /\ cdoc' = [cdoc EXCEPT ![p][FreshCid(i)] =
                                    [agg |-> docs[p][i].sev, alert_sent |-> FALSE]]
                    /\ usedCids' = usedCids \cup {FreshCid(i)}
                    /\ hist' = [hist EXCEPT ![p].persisted = @ \cup {FreshCid(i)}]
                    /\ pc' = [pc EXCEPT ![p] = "isave"]
                    /\ UNCHANGED <<ck, result, outcome, fails>>
                 \/ /\ CanFail
                    /\ fails' = fails + 1
                    /\ Caught(p, "cluster")
                    /\ UNCHANGED <<clusters, usedCids, cur, cdoc, ck>>
    /\ UNCHANGED <<ops, items, sendCalls, missed, opts, pend, docs, ci, cj, resp, classified, created>>
    /\ UNCHANGED fn

\* clusterItems: item.status = 'clustered'; item.cluster_id = cluster._id; item.save()
ItemSave(p) ==
    /\ pc[p] = "isave"
    /\ LET i == classified[p][ck[p]] IN
       /\ docs' = [docs EXCEPT ![p][i].status = "clustered", ![p][i].cid = cur[p]]
       /\ \/ /\ items' = [items EXCEPT ![i].status = "clustered", ![i].cid = cur[p]]
             /\ pc' = [pc EXCEPT ![p] = "metrics"]
             /\ UNCHANGED <<result, hist, outcome, fails>>
          \/ /\ CanFail
             /\ fails' = fails + 1
             /\ Caught(p, "cluster")
             /\ UNCHANGED items
    /\ UNCHANGED <<ops, clusters, usedCids, sendCalls, missed, opts, pend, ci, cj, resp, classified,
                   created, cdoc, cur, ck>>
    /\ UNCHANGED fn

\* FeedbackItem.find({_id: {$in: cluster.feedback_items}}): the stored members
StoredMembers(c) ==
    {i \in ItemIds : items[i].status # "absent"
                     /\ \E n \in 1..Len(clusters[c].members) : clusters[c].members[n] = i}

RECURSIVE SumSev(_)
SumSev(S) ==
    IF S = {} THEN 0
    ELSE LET i == CHOOSE x \in S : TRUE IN items[i].sev + SumSev(S \ {i})

MaxSev(S) == CHOOSE m \in {items[i].sev : i \in S} : \A i \in S : items[i].sev <= m

\* updateClusterMetrics: the cluster document with its metrics, aggregate_severity
\* and priority recomputed from the stored members (unchanged when there is none)
UpdateClusterMetrics(c) ==
    LET S == StoredMembers(c)
        n == Cardinality(S)
        agg == Aggregate(SumSev(S), n, MaxSev(S))
    IN IF S = {} THEN clusters[c]
       ELSE [clusters[c] EXCEPT !.total = n,
                                !.avg = Round(SumSev(S), n),
                                !.max = MaxSev(S),
                                !.agg = agg,
                                !.priority = PriorityOf(agg)]

\* clusterItems: updateClusterMetrics(cluster); cluster.save(); push
FinishCluster(p) ==
    /\ pc[p] = "metrics"
    /\ \/ /\ clusters' = [clusters EXCEPT ![cur[p]] = UpdateClusterMetrics(cur[p])]
          /\ cdoc' = [cdoc EXCEPT ![p][cur[p]].agg = UpdateClusterMetrics(cur[p]).agg]
          /\ created' = [created EXCEPT ![p] = Append(@, cur[p])]
          /\ ck' = [ck EXCEPT ![p] = ck[p] + 1]
          /\ pc' = [pc EXCEPT ![p] = "csave"]
          /\ UNCHANGED <<result, hist, outcome, fails>>
       \/ /\ CanFail
          /\ fails' = fails + 1
          /\ Caught(p, "cluster")
          /\ UNCHANGED <<clusters, cdoc, created, ck>>
    /\ UNCHANGED <<ops, items, usedCids, sendCalls, missed, opts, pend, docs, ci, cj, resp, classified,
                   cur>>
    /\ UNCHANGED fn

\* ShouldAlert with the threshold made exclusive
ShouldAlertAbove(p, c) == cdoc[p][c].agg > Threshold /\ ~cdoc[p][c].alert_sent

\* the test of the alert loop, on the run's cluster document
ShouldAlert(p, c) == cdoc[p][c].agg >= Threshold /\ ~cdoc[p][c].alert_sent

\* outcomes of sendCriticalAlert: it resolves {success: true}, resolves
\* {success: false} (ALERT_EMAIL_TO unset, the mail API reports or throws an
\* error) or throws (RESEND_API_KEY unset)
SendOutcomes == {"sent", "unsent", "throws"}

\* AlertSend alerting any stored cluster at or above the threshold, whether
\* this run built it and whether it was alerted before
AlertSendStored(p) ==
    /\ pc[p] = "alert"
    /\ pc' = [pc EXCEPT ![p] = "done"]
    /\ outcome' = [outcome EXCEPT ![p] = "resolved"]
    /\ \/ UNCHANGED sendCalls
       \/ /\ ~opts[p].skipAlerts
          /\ \E c \in ClusterIds :
                /\ clusters[c].status # "none"
                /\ clusters[c].agg >= Threshold
                /\ sendCalls' = [sendCalls EXCEPT ![c] = @ + 1]
    /\ UNCHANGED <<ops, items, clusters, usedCids, fails, opts, pend, docs, ci, cj, resp,
                   classified, created, cur, cdoc, ck, result, hist, missed>>
    /\ UNCHANGED fn

\* Step 4, the alert loop: its test and await sendCriticalAlert(cluster)
AlertSend(p) ==
    /\ pc[p] = "alert"
    /\ IF opts[p].skipAlerts \/ ck[p] > Len(created[p])
       THEN /\ pc' = [pc EXCEPT ![p] = "done"]
            /\ outcome' = [outcome EXCEPT ![p] = "resolved"]
            /\ missed' = IF opts[p].skipAlerts
                         THEN missed \cup {created[p][n] : n \in 1..Len(created[p])}
                         ELSE missed
            /\ UNCHANGED <<sendCalls, cdoc, ck, result, hist>>
       ELSE LET c == created[p][ck[p]] IN
            IF ~ShouldAlert(p, c)
            THEN /\ ck' = [ck EXCEPT ![p] = ck[p] + 1]
                 /\ UNCHANGED <<sendCalls, missed, cdoc, pc, result, hist, outcome>>
            ELSE /\ sendCalls' = [sendCalls EXCEPT ![c] = @ + 1]
                 /\ UNCHANGED outcome
                 /\ \E o \in SendOutcomes :
                      IF o = "throws"
                      THEN /\ result' = [result EXCEPT ![p].errors = Append(@, "alert")]
                           /\ hist' = [hist EXCEPT ![p].sendFailed = @ \cup {c}]
                           /\ missed' = missed \cup {c}
                           /\ ck' = [ck EXCEPT ![p] = ck[p] + 1]
                           /\ UNCHANGED <<cdoc, pc>>
                      ELSE /\ cdoc' = [cdoc EXCEPT ![p][c].alert_sent = TRUE]
                           /\ hist' = IF o = "sent"
                                      THEN [hist EXCEPT ![p].sendOk = @ \cup {c}]
                                      ELSE [hist EXCEPT ![p].sendFailed = @ \cup {c}]
                           /\ pc' = [pc EXCEPT ![p] = "asave"]
                           /\ UNCHANGED <<result, ck, missed>>
    /\ UNCHANGED <<ops, items, clusters, usedCids, fails, opts, pend, docs, ci, cj, resp,
                   classified, created, cur>>
    /\ UNCHANGED fn

\* the alert loop: cluster.save() of alert_sent and alert_sent_at, alertsSent++
AlertSave(p) ==
    /\ pc[p] = "asave"
    /\ LET c == created[p][ck[p]] IN
       \/ /\ clusters' = [clusters EXCEPT ![c].alert_sent = TRUE,
                                          ![c].alert_sent_at = TRUE]
          /\ result' = [result EXCEPT ![p].alertsSent = @ + 1]
          /\ UNCHANGED fails
       \/ /\ CanFail
          /\ fails' = fails + 1
          /\ result' = [result EXCEPT ![p].errors = Append(@, "alert")]
          /\ UNCHANGED clusters
    /\ ck' = [ck EXCEPT ![p] = ck[p] + 1]
    /\ pc' = [pc EXCEPT ![p] = "alert"]
    /\ UNCHANGED <<ops, items, usedCids, sendCalls, missed, opts, pend, docs, ci, cj, resp, classified,
                   created, cdoc, cur, outcome, hist>>
    /\ UNCHANGED fn

\* the caller has the result (or the rejection); the run's locals are dropped
Return(p) ==
    /\ pc[p] = "done"
    /\ pc' = [pc EXCEPT ![p] = "idle"]
    /\ opts' = [opts EXCEPT ![p] = DefaultOpts]
    /\ pend' = [pend EXCEPT ![p] = <<>>]
    /\ docs' = [docs EXCEPT ![p] = [i \in ItemIds |-> NoItem]]
    /\ ci' = [ci EXCEPT ![p] = 1]
    /\ cj' = [cj EXCEPT ![p] = 1]
    /\ resp' = [resp EXCEPT ![p] = <<>>]
    /\ classified' = [classified EXCEPT ![p] = <<>>]
    /\ created' = [created EXCEPT ![p] = <<>>]
    /\ cdoc' = [cdoc EXCEPT ![p] = [c \in ClusterIds |-> NoMem]]
    /\ cur' = [cur EXCEPT ![p] = NoCluster]
    /\ ck' = [ck EXCEPT ![p] = 1]
    /\ result' = [result EXCEPT ![p] = NewResult]
    /\ outcome' = [outcome EXCEPT ![p] = "none"]
    /\ hist' = [hist EXCEPT ![p] = NoHist]
    /\ UNCHANGED <<items, clusters, usedCids, fails, ops, sendCalls, missed>>
    /\ UNCHANGED fn

\* ------------------------------------------------------------------------
\* Operator endpoints on clusters (taken between runs)
\* ------------------------------------------------------------------------
PatchStatuses == {"reviewed", "resolved"}

\* PATCH /api/clusters/[id] with a status: findByIdAndUpdate, then the cascade
\* to the member items when the status is resolved
PatchStatus(c, st) ==
    /\ Quiescent
    /\ ops < MaxOps
    /\ ops' = ops + 1
    /\ clusters[c].status # "none"
    /\ clusters[c].status # st
    /\ clusters' = [clusters EXCEPT ![c].status = st]
    /\ items' = IF st = "resolved"
                THEN [i \in ItemIds |->
                        IF i \in StoredMembers(c)
                        THEN [items[i] EXCEPT !.status = "resolved"]
                        ELSE items[i]]
                ELSE items
    /\ UNCHANGED <<usedCids, fails, sendCalls, missed>>
    /\ UNCHANGED runVars
    /\ UNCHANGED fn

PatchPriorities == {"critical", "low"}

\* PATCH /api/clusters/[id] with a priority: findByIdAndUpdate sets the field
PatchPriority(c, pr) ==
    /\ Quiescent
    /\ ops < MaxOps
    /\ ops' = ops + 1
    /\ clusters[c].status # "none"
    /\ clusters[c].priority # pr
    /\ clusters' = [clusters EXCEPT ![c].priority = pr]
    /\ UNCHANGED <<items, usedCids, fails, sendCalls, missed>>
    /\ UNCHANGED runVars
    /\ UNCHANGED fn

\* POST reject: updateMany({_id: {$in: ids}}, {$set: {status: 'rejected'}})
Reject(c) ==
    /\ Quiescent
    /\ ops < MaxOps
    /\ ops' = ops + 1
    /\ clusters[c].status \notin {"none", "rejected"}
    /\ clusters' = [clusters EXCEPT ![c].status = "rejected"]
    /\ UNCHANGED <<items, usedCids, fails, sendCalls, missed>>
    /\ UNCHANGED runVars
    /\ UNCHANGED fn

\* DELETE: deleteMany({_id: {$in: ids}}) (deleteMany({status: 'rejected'}) is the
\* same call on every rejected id)
Delete(c) ==
    /\ Quiescent
    /\ ops < MaxOps
    /\ ops' = ops + 1
    /\ clusters[c].status # "none"
    /\ clusters' = [clusters EXCEPT ![c] = NoClusterDoc]
    /\ UNCHANGED <<items, usedCids, fails, sendCalls, missed>>
    /\ UNCHANGED runVars
    /\ UNCHANGED fn

Next ==
    \/ \E i \in ItemIds : Ingest(i)
    \/ \E p \in Procs : Start(p)
    \/ \E p \in Procs : Connect(p)
    \/ \E p \in Procs : Fetch(p)
    \/ \E p \in Procs : ClassifyBatch(p)
    \/ \E p \in Procs : ClassifyItem(p)
    \/ \E p \in Procs : ClusterBegin(p)
    \/ \E p \in Procs : ClusterSave(p)
    \/ \E p \in Procs : ItemSave(p)
    \/ \E p \in Procs : FinishCluster(p)
    \/ \E p \in Procs : AlertSend(p)
    \/ \E p \in Procs : AlertSave(p)
    \/ \E p \in Procs : Return(p)
    \/ \E c \in ClusterIds, st \in PatchStatuses : PatchStatus(c, st)
    \/ \E c \in ClusterIds, pr \in PatchPriorities : PatchPriority(c, pr)
    \/ \E c \in ClusterIds : Reject(c)
    \/ \E c \in ClusterIds : Delete(c)

Spec == Init /\ [][Next]_vars

\* ------------------------------------------------------------------------
\* Items set aside. The schema admits the status ignored and the feedback listing
\* filters on it, but no handler of the repository writes it: the step that does
\* is taken from the specification (an operator marks a stored item ignored).
\* ------------------------------------------------------------------------
Ignore(i) ==
    /\ Quiescent
    /\ items[i].status \in {"pending", "clustered"}
    /\ items' = [items EXCEPT ![i].status = "ignored"]
    /\ UNCHANGED <<clusters, usedCids, fails, ops, sendCalls, missed>>
    /\ UNCHANGED runVars
    /\ UNCHANGED fn

NextIgnore ==
    \/ Next
    \/ \E i \in ItemIds : Ignore(i)

SpecIgnore == Init /\ [][NextIgnore]_vars

\* ------------------------------------------------------------------------
\* The end-to-end scenario: the store holds one pending app_store item that was
\* ingested with star_rating 1 and no sentiment, date or content options
\* ------------------------------------------------------------------------
E2EItem == 1

\* the severity processAndSave stores for it
E2ESeverity ==
    CHOOSE v \in {normalizeSeverity("app_store", [NoMeta EXCEPT !.star_rating = 1],
                                    NoOptions, now) : now \in Nows} : TRUE

InitE2E ==
    /\ items = [i \in ItemIds |->
                  IF i = E2EItem
                  THEN [NoItem EXCEPT !.status = "pending", !.sev = E2ESeverity,
                                      !.kw = IngestKeywords]
                  ELSE NoItem]
    /\ clusters = [c \in ClusterIds |-> NoClusterDoc]
    /\ usedCids = {}
    /\ fails = 0
    /\ ops = 0
    /\ sendCalls = [c \in ClusterIds |-> 0]
    /\ missed = {}
    /\ pc = [p \in Procs |-> "idle"]
    /\ opts = [p \in Procs |-> DefaultOpts]
    /\ pend = [p \in Procs |-> <<>>]
    /\ docs = [p \in Procs |-> [i \in ItemIds |-> NoItem]]
    /\ ci = [p \in Procs |-> 1]
    /\ cj = [p \in Procs |-> 1]
    /\ resp = [p \in Procs |-> <<>>]
    /\ classified = [p \in Procs |-> <<>>]
    /\ created = [p \in Procs |-> <<>>]
    /\ cdoc = [p \in Procs |-> [c \in ClusterIds |-> NoMem]]
    /\ cur = [p \in Procs |-> NoCluster]
    /\ ck = [p \in Procs |-> 1]
    /\ result = [p \in Procs |-> NewResult]
    /\ outcome = [p \in Procs |-> "none"]
    /\ hist = [p \in Procs |-> NoHist]
    /\ fn = NoFn

SpecE2E == InitE2E /\ [][Next]_vars

\* ------------------------------------------------------------------------
\* Overlapping runs: the entry points call analyze with no lock and no queue, so
\* a request may start a run while another request's run is in progress. The
\* store holds the one pending item of the scenario above.
\* ------------------------------------------------------------------------
StartOverlapping(p) ==
    /\ pc[p] = "idle"
    /\ \E o \in EntryOpts(p) : opts' = [opts EXCEPT ![p] = o]
    /\ pc' = [pc EXCEPT ![p] = "connect"]
    /\ UNCHANGED <<items, clusters, usedCids, fails, ops, sendCalls, missed, pend, docs, ci, cj, resp,
                   classified, created, cdoc, cur, ck, result, outcome, hist>>
    /\ UNCHANGED fn

NextOverlap ==
    \/ \E p \in Procs : StartOverlapping(p)
    \/ \E p \in Procs : Connect(p)
    \/ \E p \in Procs : Fetch(p)
    \/ \E p \in Procs : ClassifyBatch(p)
    \/ \E p \in Procs : ClassifyItem(p)
    \/ \E p \in Procs : ClusterBegin(p)
    \/ \E p \in Procs : ClusterSave(p)
    \/ \E p \in Procs : ItemSave(p)
    \/ \E p \in Procs : FinishCluster(p)
    \/ \E p \in Procs : AlertSend(p)
    \/ \E p \in Procs : AlertSave(p)
    \/ \E p \in Procs : Return(p)

SpecOverlap == InitE2E /\ [][NextOverlap]_vars

\* ------------------------------------------------------------------------
\* Interrupted runs: the process running analyze is stopped at an await (a
\* database call, the classification call or the alert delivery), so the run
\* makes no further write and returns nothing. Interruptions come from outside
\* like the operator requests and are counted in ops.
\* ------------------------------------------------------------------------
Interrupt(p) ==
    /\ pc[p] \notin {"idle", "done"}
    /\ ops < MaxOps
    /\ ops' = ops + 1
    /\ pc' = [pc EXCEPT ![p] = "idle"]
    /\ opts' = [opts EXCEPT ![p] = DefaultOpts]
    /\ pend' = [pend EXCEPT ![p] = <<>>]
    /\ docs' = [docs EXCEPT ![p] = [i \in ItemIds |-> NoItem]]
    /\ ci' = [ci EXCEPT ![p] = 1]
    /\ cj' = [cj EXCEPT ![p] = 1]
    /\ resp' = [resp EXCEPT ![p] = <<>>]
    /\ classified' = [classified EXCEPT ![p] = <<>>]
    /\ created' = [created EXCEPT ![p] = <<>>]
    /\ cdoc' = [cdoc EXCEPT ![p] = [c \in ClusterIds |-> NoMem]]
    /\ cur' = [cur EXCEPT ![p] = NoCluster]
    /\ ck' = [ck EXCEPT ![p] = 1]
    /\ result' = [result EXCEPT ![p] = NewResult]
    /\ outcome' = [outcome EXCEPT ![p] = "none"]
    /\ hist' = [hist EXCEPT ![p] = NoHist]
    /\ UNCHANGED <<items, clusters, usedCids, fails, sendCalls, missed>>
    /\ UNCHANGED fn

NextInterrupt ==
    \/ \E i \in ItemIds : Ingest(i)
    \/ \E p \in Procs : Start(p)
    \/ \E p \in Procs : Connect(p)
    \/ \E p \in Procs : Fetch(p)
    \/ \E p \in Procs : ClassifyBatch(p)
    \/ \E p \in Procs : ClassifyItem(p)
    \/ \E p \in Procs : ClusterBegin(p)
    \/ \E p \in Procs : ClusterSave(p)
    \/ \E p \in Procs : ItemSave(p)
    \/ \E p \in Procs : FinishCluster(p)
    \/ \E p \in Procs : AlertSend(p)
    \/ \E p \in Procs : AlertSave(p)
    \/ \E p \in Procs : Return(p)
    \/ \E p \in Procs : Interrupt(p)

SpecInterrupt == Init /\ [][NextInterrupt]_vars

\* ------------------------------------------------------------------------
\* Evaluations of the pure functions, each on inputs of its own; a behaviour
\* records one evaluation
\* ------------------------------------------------------------------------
MaxMembers == 4      \* members of a cluster whose metrics are recomputed

SevValues == {0, 49, 50, 60, 74, 75, 89, 90, 100}
SevLists == UNION {[1..n -> SevValues] : n \in 1..MaxMembers}
BlendTechs == {-5, 0} \cup (1..100) \cup {150}
BlendSevs == 0..100

dbVars == <<items, clusters, usedCids, fails, ops, sendCalls, missed>>

\* normalizeSeverity, evaluated twice on the same arguments at two clock readings
Normalize ==
    /\ fn = NoFn
    /\ \E source \in Sources :
         \E meta \in Metas(source), options \in OptionSet, now \in Nows, again \in Nows :
            fn' = [op |-> "normalize", source |-> source, meta |-> meta,
                   options |-> options, now |-> now, again |-> again,
                   out |-> normalizeSeverity(source, meta, options, now),
                   outAgain |-> normalizeSeverity(source, meta, options, again)]
    /\ UNCHANGED dbVars
    /\ UNCHANGED runVars

\* applyKeywordBoost
KeywordBoost ==
    /\ fn = NoFn
    /\ \E currentSeverity \in {0, 50, 95}, content \in Contents :
         fn' = [op |-> "keyword", currentSeverity |-> currentSeverity, content |-> content,
                out |-> applyKeywordBoost(currentSeverity * Milli, content)]
    /\ UNCHANGED dbVars
    /\ UNCHANGED runVars

\* updateClusterMetrics on a cluster whose members have these severities
Recalculate ==
    /\ fn = NoFn
    /\ \E severities \in SevLists :
         fn' = [op |-> "metrics", severities |-> severities, out |-> MetricsOf(severities)]
    /\ UNCHANGED dbVars
    /\ UNCHANGED runVars

\* classifyItems on one item of severity s with a classification whose
\* technical_severity is t: the blend, then item.save() with its validation
BlendSave ==
    /\ fn = NoFn
    /\ \E t \in BlendTechs, s \in BlendSevs :
         LET doc == Classify([NoItem EXCEPT !.status = "pending", !.sev = s], LLMResult(t))
             saved == ValidItemSeverity(doc.sev)
         IN fn' = [op |-> "blend", t |-> t, s |-> s, out |-> doc.sev, saved |-> saved,
                   stored |-> IF saved THEN doc.sev ELSE s]
    /\ UNCHANGED dbVars
    /\ UNCHANGED runVars

\* a recomputation that adds the members it finds to the stored count
UpdateMetricsAccumulating(cluster, severities) ==
    IF severities = <<>> THEN cluster
    ELSE LET n == Len(severities)
             agg == Aggregate(SeqSum(severities), n, SeqMax(severities))
         IN [total |-> cluster.total + n,
             avg |-> <<Round(SeqSum(severities), n), 1>>,
             max |-> SeqMax(severities),
             trend |-> IF cluster.trend = "" THEN "stable" ELSE cluster.trend,
             agg |-> agg,
             priority |-> PriorityOf(agg)]

\* updateClusterMetrics on a cluster document whose stored members have these
\* severities (avg_severity as a fraction: the rounded mean over 1)
UpdateMetricsOf(cluster, severities) ==
    IF severities = <<>> THEN cluster
    ELSE LET n == Len(severities)
             agg == Aggregate(SeqSum(severities), n, SeqMax(severities))
         IN [total |-> n,
             avg |-> <<Round(SeqSum(severities), n), 1>>,
             max |-> SeqMax(severities),
             trend |-> IF cluster.trend = "" THEN "stable" ELSE cluster.trend,
             agg |-> agg,
             priority |-> PriorityOf(agg)]

\* ClusterSchema.methods.recalculateMetrics: the same with the mean left unrounded
\* (the fraction sum over count)
RecalculateMetricsOf(cluster, severities) ==
    IF severities = <<>> THEN cluster
    ELSE LET n == Len(severities)
             agg == Aggregate(SeqSum(severities), n, SeqMax(severities))
         IN [total |-> n,
             avg |-> <<SeqSum(severities), n>>,
             max |-> SeqMax(severities),
             trend |-> IF cluster.trend = "" THEN "stable" ELSE cluster.trend,
             agg |-> agg,
             priority |-> PriorityOf(agg)]

\* the cluster documents a recomputation is run on: as clusterItems stored them
\* for a first member of severity 60, with any trend or none
TrendValues == {"", "stable", "rising", "declining"}
FnClusters ==
    {[total |-> 1, avg |-> <<60, 1>>, max |-> 60, trend |-> t, agg |-> 60,
      priority |-> "medium"] : t \in TrendValues}

\* a recomputation run twice on a cluster whose members and their severities
\* stay the same
RecalculateTwice ==
    /\ fn = NoFn
    /\ \E cluster \in FnClusters, severities \in SevLists \cup {<<>>},
          method \in {"updateClusterMetrics", "recalculateMetrics"} :
         LET first == IF method = "updateClusterMetrics"
                      THEN UpdateMetricsOf(cluster, severities)
                      ELSE RecalculateMetricsOf(cluster, severities)
             second == IF method = "updateClusterMetrics"
                       THEN UpdateMetricsOf(first, severities)
                       ELSE RecalculateMetricsOf(first, severities)
         IN fn' = [op |-> "twice", method |-> method, cluster |-> cluster,
                   severities |-> severities, first |-> first, second |-> second]
    /\ UNCHANGED dbVars
    /\ UNCHANGED runVars

MaxTrendItems == 6   \* members of a cluster whose trend is evaluated
TrendSevs == {55, 60, 65, 70}
TrendLists == UNION {[1..n -> TrendSevs] : n \in 0..MaxTrendItems}

\* the sum of a possibly empty list
ListSum(q) == IF q = <<>> THEN 0 ELSE SeqSum(q)

\* the pairs (sum of the recent half, sum of the older half) of two halves of 3
\* members whose means differ by exactly 10 while the double-precision
\* difference recentAvg - olderAvg falls just beyond 10 (halves of 2 and 3 and of
\* 3 and 4 members have no such pair)
TrendFloatTies ==
    {<<26, 56>>, <<29, 59>>, <<32, 62>>, <<35, 65>>, <<38, 68>>, <<41, 71>>, <<44, 74>>,
     <<47, 77>>, <<56, 26>>, <<59, 29>>, <<62, 32>>, <<65, 35>>, <<67, 97>>, <<68, 38>>,
     <<70, 100>>, <<71, 41>>, <<73, 103>>, <<74, 44>>, <<76, 106>>, <<77, 47>>,
     <<79, 109>>, <<82, 112>>, <<85, 115>>, <<88, 118>>, <<91, 121>>, <<94, 124>>,
     <<97, 67>>, <<100, 70>>, <<103, 73>>, <<106, 76>>, <<109, 79>>, <<112, 82>>,
     <<115, 85>>, <<118, 88>>, <<121, 91>>, <<124, 94>>, <<164, 194>>, <<167, 197>>,
     <<170, 200>>, <<173, 203>>, <<176, 206>>, <<179, 209>>, <<182, 212>>, <<185, 215>>,
     <<188, 218>>, <<191, 221>>, <<194, 164>>, <<197, 167>>, <<200, 170>>, <<203, 173>>,
     <<206, 176>>, <<209, 179>>, <<212, 182>>, <<215, 185>>, <<218, 188>>, <<221, 191>>}

\* updateTrends on one cluster: trend is the stored trend, severities the
\* normalized_severity of its members as find(...).sort({created_at: -1}) returns
\* them. The means are compared as fractions, recentSum / midpoint against
\* olderSum / (n - midpoint), except where the doubles differ from them.
TrendOf(trend, severities) ==
    LET n == Len(severities)
        midpoint == n \div 2
        recentSum == ListSum(SubSeq(severities, 1, midpoint))
        olderSum == ListSum(SubSeq(severities, midpoint + 1, n))
        scaled == recentSum * (n - midpoint) - olderSum * midpoint
        bound == 10 * midpoint * (n - midpoint)
    IN IF n < 5 THEN trend
       ELSE IF midpoint = 3 /\ n = 6 /\ <<recentSum, olderSum>> \in TrendFloatTies
       THEN (IF recentSum > olderSum THEN "rising" ELSE "declining")
       ELSE IF scaled > bound THEN "rising"
       ELSE IF scaled < -bound THEN "declining"
       ELSE "stable"

\* updateTrends on a cluster with this stored trend and these members
UpdateTrend ==
    /\ fn = NoFn
    /\ \E trend \in TrendValues \ {""}, severities \in TrendLists :
         fn' = [op |-> "trend", trend |-> trend, severities |-> severities,
                out |-> TrendOf(trend, severities)]
    /\ UNCHANGED dbVars
    /\ UNCHANGED runVars

\* the options the ingestion paths hand to normalizeSeverity
IngestOptions(postedAt, content) ==
    [sentimentScore |-> <<>>, postedAt |-> postedAt, content |-> content]

\* processAndSave on one scraped or parsed item that is not a duplicate, when
\* Date.now() is now: the FeedbackItem it saves
processAndSave ==
    /\ fn = NoFn
    /\ \E source \in Sources :
         \E meta \in Metas(source), content \in Contents,
            postedAt \in {<<>>} \cup {<<h>> : h \in PostedAts}, now \in Nows :
            fn' = [op |-> "ingest", path |-> "processAndSave", source |-> source,
                   meta |-> meta, content |-> content, postedAt |-> postedAt,
                   now |-> now,
                   item |-> [status |-> "pending",
                             sev |-> normalizeSeverity(source, meta,
                                        IngestOptions(postedAt, content), now)]]
    /\ UNCHANGED dbVars
    /\ UNCHANGED runVars

\* POST /api/external/feedback (the widget) with a valid key and a non-empty
\* content: the FeedbackItem it creates
ExternalFeedbackPost ==
    /\ fn = NoFn
    /\ \E content \in Contents \ {<<>>},
          postedAt \in {<<>>} \cup {<<h>> : h \in PostedAts}, now \in Nows :
            fn' = [op |-> "ingest", path |-> "widget", source |-> "custom",
                   meta |-> NoMeta, content |-> content, postedAt |-> postedAt,
                   now |-> now,
                   item |-> [status |-> "pending", sev |-> 50]]
    /\ UNCHANGED dbVars
    /\ UNCHANGED runVars

FnChunkSize == 2     \* chunkSize of classifyItems in these evaluations
MaxFnItems == 3      \* items handed to classifyItems in these evaluations

\* the fetched documents: n pending items with the severities of ingestion
FnItems(n) == [k \in 1..n |-> [NoItem EXCEPT !.status = "pending", !.sev = InitSev(k),
                                              !.kw = IngestKeywords]]

\* the number of chunks of a list of n items
FnChunks(n, size) == (n + size - 1) \div size

\* the inner loop of classifyItems with every result taken from position 1
RECURSIVE ClassifyChunkFirst(_, _, _, _)
ClassifyChunkFirst(chunk, classifications, j, acc) ==
    IF j > Len(chunk) THEN acc
    ELSE IF j > Len(classifications) \/ classifications[1].null
    THEN ClassifyChunkFirst(chunk, classifications, j + 1, acc)
    ELSE LET doc == Classify(chunk[j], classifications[1]) IN
         IF ~ValidItemSeverity(doc.sev) THEN acc
         ELSE ClassifyChunkFirst(chunk, classifications, j + 1,
                                 [docs |-> [acc.docs EXCEPT ![j] = doc],
                                  classified |-> Append(acc.classified, j)])

\* the inner loop of classifyItems from position j of a chunk: classifications[j]
\* is applied to chunk[j] and the item saved; a missing or null element skips the
\* item; a rejected save ends the chunk. acc holds the stored documents of the
\* chunk and the positions pushed to classifiedItems.
RECURSIVE ClassifyChunk(_, _, _, _)
ClassifyChunk(chunk, classifications, j, acc) ==
    IF j > Len(chunk) THEN acc
    ELSE IF j > Len(classifications) \/ classifications[j].null
    THEN ClassifyChunk(chunk, classifications, j + 1, acc)
    ELSE LET doc == Classify(chunk[j], classifications[j]) IN
         IF ~ValidItemSeverity(doc.sev) THEN acc
         ELSE ClassifyChunk(chunk, classifications, j + 1,
                            [docs |-> [acc.docs EXCEPT ![j] = doc],
                             classified |-> Append(acc.classified, j)])

\* the outer loop of classifyItems from index i: items.slice(i, i + chunkSize),
\* one response per chunk
RECURSIVE ClassifyItemsFrom(_, _, _, _, _)
ClassifyItemsFrom(list, responses, size, i, acc) ==
    IF i > Len(list) THEN acc
    ELSE LET chunk == SubSeq(list, i, Min(i + size - 1, Len(list)))
             got == ClassifyChunk(chunk, responses[((i - 1) \div size) + 1], 1,
                                  [docs |-> chunk, classified |-> <<>>])
         IN ClassifyItemsFrom(list, responses, size, i + size,
                [docs |-> acc.docs \o got.docs,
                 classified |-> acc.classified \o
                     [n \in 1..Len(got.classified) |-> got.classified[n] + i - 1]])

\* classifyItems on a fetched list, with the parsed response of each chunk
ClassifyAligned ==
    /\ fn = NoFn
    /\ \E n \in 0..MaxFnItems :
         \E responses \in [1..FnChunks(n, FnChunkSize) -> Responses(FnChunkSize)] :
            fn' = [op |-> "classify", items |-> FnItems(n), responses |-> responses,
                   out |-> ClassifyItemsFrom(FnItems(n), responses, FnChunkSize, 1,
                                             [docs |-> <<>>, classified |-> <<>>])]
    /\ UNCHANGED dbVars
    /\ UNCHANGED runVars

NextFn ==
    \/ Normalize
    \/ KeywordBoost
    \/ Recalculate
    \/ BlendSave
    \/ ClassifyAligned
    \/ RecalculateTwice
    \/ UpdateTrend
    \/ processAndSave
    \/ ExternalFeedbackPost

SpecFn == Init /\ [][NextFn]_vars

\* ------------------------------------------------------------------------
\* Fix generation and the trend job beside the pipeline
\* ------------------------------------------------------------------------
\* generateFix(clusterId): Cluster.findById with no condition on the status, the
\* fix plan stored in generated_fix, then status = 'in_progress' and save()
GenerateFix(c) ==
    /\ Quiescent
    /\ clusters[c].status # "none"
    /\ clusters' = [clusters EXCEPT ![c].fix = TRUE, ![c].status = "in_progress"]
    /\ UNCHANGED <<items, usedCids, fails, ops, sendCalls, missed>>
    /\ UNCHANGED runVars
    /\ UNCHANGED fn

\* the clusters generateFixesForCriticalClusters finds (limit(10) is above the
\* number of clusters here)
CriticalClusters ==
    {c \in ClusterIds : /\ clusters[c].agg >= Threshold
                        /\ clusters[c].status \in {"active", "reviewed"}
                        /\ ~clusters[c].fix}

\* generateFixesForCriticalClusters with the default threshold: generateFix on
\* each cluster found
GenerateFixesForCriticalClusters ==
    /\ Quiescent
    /\ CriticalClusters # {}
    /\ clusters' = [c \in ClusterIds |->
                      IF c \in CriticalClusters
                      THEN [clusters[c] EXCEPT !.fix = TRUE, !.status = "in_progress"]
                      ELSE clusters[c]]
    /\ UNCHANGED <<items, usedCids, fails, ops, sendCalls, missed>>
    /\ UNCHANGED runVars
    /\ UNCHANGED fn

\* the members of cluster c that exist, newest first (created_at grows with the
\* item's number)
RECURSIVE MembersNewestFirst(_, _)
MembersNewestFirst(c, i) ==
    IF i = 0 THEN <<>>
    ELSE IF i \in StoredMembers(c) THEN <<items[i].sev>> \o MembersNewestFirst(c, i - 1)
    ELSE MembersNewestFirst(c, i - 1)

\* updateTrends: every active or reviewed cluster gets the trend of its members
UpdateTrends ==
    /\ Quiescent
    /\ \E c \in ClusterIds : clusters[c].status \in {"active", "reviewed"}
    /\ clusters' = [c \in ClusterIds |->
                      IF clusters[c].status \in {"active", "reviewed"}
                      THEN [clusters[c] EXCEPT
                              !.trend = TrendOf(@, MembersNewestFirst(c, NItems))]
                      ELSE clusters[c]]
    /\ UNCHANGED <<items, usedCids, fails, ops, sendCalls, missed>>
    /\ UNCHANGED runVars
    /\ UNCHANGED fn

NextFix ==
    \/ \E i \in ItemIds : Ingest(i)
    \/ \E p \in Procs : Start(p)
    \/ \E p \in Procs : Connect(p)
    \/ \E p \in Procs : Fetch(p)
    \/ \E p \in Procs : ClassifyBatch(p)
    \/ \E p \in Procs : ClassifyItem(p)
    \/ \E p \in Procs : ClusterBegin(p)
    \/ \E p \in Procs : ClusterSave(p)
    \/ \E p \in Procs : ItemSave(p)
    \/ \E p \in Procs : FinishCluster(p)
    \/ \E p \in Procs : AlertSend(p)
    \/ \E p \in Procs : AlertSave(p)
    \/ \E p \in Procs : Return(p)
    \/ \E c \in ClusterIds, st \in PatchStatuses : PatchStatus(c, st)
    \/ \E c \in ClusterIds : Reject(c)
    \/ \E c \in ClusterIds : GenerateFix(c)
    \/ GenerateFixesForCriticalClusters
    \/ UpdateTrends

SpecFix == Init /\ [][NextFix]_vars

\* ------------------------------------------------------------------------
\* Properties
\* ------------------------------------------------------------------------
Stored(c) == clusters[c].status # "none"

\* the cluster the alert loop of run p is looking at
AlertCursor(p) ==
    IF pc[p] \in {"alert", "asave"} /\ ck[p] <= Len(created[p])
    THEN {created[p][ck[p]]} ELSE {}

\* C1: an alert is fired at most once per cluster: sendCriticalAlert is called at
\* most once for a cluster over all runs, and never again for a cluster whose
\* alert_sent is true.
C1_AlertAtMostOnce ==
    [][\A c \in ClusterIds :
          /\ sendCalls'[c] <= 1
          /\ clusters[c].alert_sent => sendCalls'[c] = sendCalls[c]]_vars

\* a later run with alerts enabled has gone through its alert loop while an
\* earlier run's cluster is marked alerted
C1_Witness ==
    \E p \in Procs, c \in ClusterIds :
        /\ pc[p] = "done" /\ ~opts[p].skipAlerts
        /\ Len(created[p]) > 0
        /\ \A n \in 1..Len(created[p]) : created[p][n] # c
        /\ clusters[c].alert_sent /\ sendCalls[c] = 1

\* C2: when delivery of a cluster's alert fails (sendCriticalAlert throws or
\* resolves {success: false}) the cluster is left unchanged: alert_sent false,
\* alert_sent_at unset, alertsSent not incremented for it.
C2_FailedDeliveryLeavesCluster ==
    \A p \in Procs :
        /\ \A c \in hist[p].sendFailed :
              ~clusters[c].alert_sent /\ ~clusters[c].alert_sent_at
        /\ result[p].alertsSent <= Cardinality(hist[p].sendOk)

\* C3: an alert that was not delivered, or was skipped by a skipAlerts run, is
\* retried by the next run: a later complete run with alerts enabled, in which no
\* delivery and no stage failed, ends with every such cluster that is active and
\* at or above the threshold marked alerted.
C3_UnalertedRetried ==
    \A p \in Procs :
        (/\ pc[p] = "done" /\ outcome[p] = "resolved"
         /\ ~opts[p].skipAlerts
         /\ result[p].success /\ result[p].errors = <<>>
         /\ hist[p].sendFailed = {})
        => \A c \in missed \ hist[p].persisted :
              (clusters[c].status = "active" /\ clusters[c].agg >= Threshold)
              => clusters[c].alert_sent

SeqSet(q) == {q[n] : n \in 1..Len(q)}

\* the run of p has returned an AnalysisResult
Returned(p) == pc[p] = "done" /\ outcome[p] = "resolved"

\* the chunk (by its start index) that item i of the fetched list falls in
ChunkOf(p, i) ==
    LET n == CHOOSE k \in 1..Len(pend[p]) : pend[p][k] = i
    IN ((n - 1) \div ChunkSize) * ChunkSize + 1

\* C5: classification batches are isolated: when a batch of a run fails, the
\* items of every other batch are still classified and saved (or left as they
\* were fetched, when the classifier returned no element for them), the failure
\* is recorded in the returned errors[], and the run reports success = true.
C5_BatchIsolation ==
    \A p \in Procs :
        (Returned(p) /\ hist[p].batchFailed # {} /\ hist[p].stage = "none")
        => /\ result[p].success
           /\ \E n \in 1..Len(result[p].errors) : result[p].errors[n] = "batch"
           /\ \A i \in SeqSet(pend[p]) :
                 ChunkOf(p, i) \notin hist[p].batchFailed
                 => i \in SeqSet(classified[p]) \/ items[i] = hist[p].snap[i]

C7_LaterStageFailureKeepsSuccess ==
    \A p \in Procs :
        (Returned(p) /\ Len(classified[p]) > 0)
        => /\ result[p].success
           /\ hist[p].stage # "none" => result[p].errors # <<>>
           /\ result[p].itemsClassified = Len(classified[p])
           /\ result[p].clustersCreated = Cardinality(hist[p].persisted)

\* C8: analyze never rejects: whatever collaborator call fails, the run ends
\* with an AnalysisResult.
C8_NeverRejects ==
    \A p \in Procs : pc[p] = "done" => outcome[p] = "resolved"

\* the clusters that list item i in feedback_items
Owners(i) == {c \in ClusterIds : Stored(c) /\ i \in SeqSet(clusters[c].members)}

\* C9: each FeedbackItem id appears in the feedback_items of at most one cluster.
C9_OneOwner ==
    \A i \in ItemIds : Cardinality(Owners(i)) <= 1

C11_DerivedFieldsConsistent ==
    (Quiescent /\ fails = 0) =>
        \A c \in ClusterIds :
            (Stored(c) /\ StoredMembers(c) # {}) =>
                /\ clusters[c].priority = PriorityOf(clusters[c].agg)
                /\ clusters[c].agg = UpdateClusterMetrics(c).agg

\* C12: metric recomputation on a non-empty list of member severities yields
\* aggregate_severity = round(0.4 * mean + 0.6 * max), halves rounded up, and the
\* priority whose inclusive lower bound (90, 75, 50, else low) the aggregate
\* reaches; [60,60,60,100] gives 88 and high.
C12_AggregateAndPriority ==
    fn.op = "metrics" =>
        LET q == fn.severities
            n == Len(q)
            mx == CHOOSE m \in {q[k] : k \in 1..n} : \A k \in 1..n : q[k] <= m
            a == fn.out.agg
        IN /\ 10 * n * a - 5 * n <= 4 * SeqSum(q) + 6 * mx * n
           /\ 4 * SeqSum(q) + 6 * mx * n < 10 * n * a + 5 * n
           /\ fn.out.priority = "critical" <=> a >= 90
           /\ fn.out.priority = "high" <=> (a >= 75 /\ a < 90)
           /\ fn.out.priority = "medium" <=> (a >= 50 /\ a < 75)
           /\ fn.out.priority = "low" <=> a < 50
           /\ q = <<60, 60, 60, 100>> => (a = 88 /\ fn.out.priority = "high")

\* the metrics of a cluster with member severities 60, 60, 60, 100 were recomputed
C12_Witness ==
    /\ fn.op = "metrics"
    /\ fn.severities = <<60, 60, 60, 100>>
    /\ fn.out.agg = 88 /\ fn.out.priority = "high"

\* C13: for a classified item with technical_severity t > 0 and prior severity s
\* in 0..100, including s = 0, the new severity is round(0.7 * t + 0.3 * s); for
\* t not greater than 0 the severity is unchanged.
C13_BlendFormula ==
    fn.op = "blend" =>
        fn.out = IF fn.t > 0 THEN Round(7 * fn.t + 3 * fn.s, 10) ELSE fn.s

\* C17: normalizeSeverity is deterministic: two evaluations on the same source,
\* metadata, sentimentScore, postedAt and content return the same integer,
\* whatever the clock reads at each.
C17_NormalizeDeterministic ==
    fn.op = "normalize" => fn.out = fn.outAgain

\* C18: every severity that is persisted is an integer in 0..100: every value
\* normalizeSeverity returns, and every value classifyItems saves after the blend,
\* for any technical_severity.
C18_SeverityBounds ==
    /\ fn.op = "normalize" => (fn.out \in 0..100 /\ fn.outAgain \in 0..100)
    /\ fn.op = "blend" => fn.stored \in 0..100

\* a blend beyond 100 was computed and its save rejected
C18_Witness ==
    /\ fn.op = "blend"
    /\ fn.t = 150 /\ fn.out > 100
    /\ ~fn.saved /\ fn.stored = fn.s

\* the weights of the table keywords that occur in the lower-cased content
MatchedWeights(content) ==
    {BASE_KEYWORD_WEIGHTS[n].weight : n \in
        {k \in 1..Len(BASE_KEYWORD_WEIGHTS) :
            Includes(ToLowerCase(content), BASE_KEYWORD_WEIGHTS[k].keyword)}}

StatusRank(st) ==
    CASE st = "absent" -> 0 [] st = "pending" -> 1 [] st = "clustered" -> 2
      [] st = "resolved" -> 3 [] OTHER -> 4

\* C14: an item's status only moves forward along pending -> clustered ->
\* resolved, and an ignored item stays ignored: no run clusters it and no cluster
\* cascade turns it resolved (stated for behaviours without a database failure).
C14_StatusMovesForward ==
    [][fails = 0 =>
          \A i \in ItemIds :
              /\ items[i].status = "ignored" => items'[i].status = "ignored"
              /\ StatusRank(items'[i].status) >= StatusRank(items[i].status)]_vars

\* C15: when an operator terminates a cluster, by PATCH to resolved or by the
\* reject endpoint, every item listed in its feedback_items is resolved afterwards
\* (stated for behaviours without a database failure).
C15_TerminationCascades ==
    [][\A c \in ClusterIds :
          (/\ fails = 0
           /\ Stored(c)
           /\ clusters[c].status \notin {"resolved", "rejected"}
           /\ clusters'[c].status \in {"resolved", "rejected"})
          => \A i \in SeqSet(clusters'[c].members) : items'[i].status = "resolved"]_vars

\* ------------------------------------------------------------------------
\* The end-to-end scenario (SpecE2E)
\* ------------------------------------------------------------------------
\* the scenario's item is the only item there is
E2EOnly == \A o \in ItemIds \ {E2EItem} : items[o].status = "absent"

\* run p has finished and was the run that fetched the scenario's item with the
\* severity written at ingestion
E2EFirstRun(p) ==
    /\ pc[p] = "done" /\ outcome[p] = "resolved"
    /\ E2EOnly
    /\ hist[p].snap[E2EItem].status = "pending"
    /\ hist[p].snap[E2EItem].sev = E2ESeverity

\* run p has finished and started after the scenario's item was clustered
E2ELaterRun(p) ==
    /\ pc[p] = "done" /\ outcome[p] = "resolved"
    /\ E2EOnly
    /\ hist[p].snap[E2EItem].status = "clustered"

\* C16 as stated: the item is ingested with severity 95, and the run that
\* classifies it, with alerts enabled, an answering classifier and nothing failing, ends with the item in
\* one cluster of aggregate_severity 95 and priority critical, alerted exactly once
\* with alert_sent true.
C16_EndToEnd ==
    /\ E2ESeverity = 95
    /\ \A p \in Procs :
          (/\ E2EFirstRun(p)
           /\ E2EItem \in SeqSet(classified[p])
           /\ ~opts[p].skipAlerts
           /\ fails = 0
           /\ hist[p].llmThrew = {} /\ hist[p].unparsed = {}
           /\ result[p].errors = <<>>)
          => /\ Len(created[p]) = 1
             /\ LET c == created[p][1] IN
                /\ clusters[c].members = <<E2EItem>>
                /\ clusters[c].agg = 95
                /\ clusters[c].priority = "critical"
                /\ sendCalls[c] = 1
                /\ clusters[c].alert_sent

\* C16, amended: the item is ingested with severity 95; the run that classifies it
\* stores the blend of the classifier's technical_severity t with 95 (95 itself
\* for t = 0, 85 for t = 80, 64 for the fallback t = 50); the cluster the run
\* builds holds that item alone, with the stored severity as aggregate_severity
\* and its bucket as priority; the run calls the alert sender for it once exactly
\* when alerts are enabled and the aggregate is at least 80, alert_sent is true
\* only after such a call and always after one in a run without errors; a later
\* run builds no cluster and sends no alert, and the sender is never called twice
\* for a cluster.
C16_EndToEndBlended ==
    /\ E2ESeverity = 95
    /\ \A c \in ClusterIds : sendCalls[c] <= 1
    /\ \A p \in Procs :
          /\ (E2EFirstRun(p) /\ E2EItem \in SeqSet(classified[p])) =>
                LET t == resp[p][1].tech IN
                /\ t = 0 => items[E2EItem].sev = 95
                /\ t = 80 => items[E2EItem].sev = 85
                /\ t = 50 => items[E2EItem].sev = 64
          /\ (E2EFirstRun(p) /\ created[p] # <<>>) =>
                LET c == created[p][1] IN
                /\ Len(created[p]) = 1
                /\ items[E2EItem].status = "clustered" /\ items[E2EItem].cid = c
                /\ clusters[c].members = <<E2EItem>>
                /\ clusters[c].agg = items[E2EItem].sev
                /\ clusters[c].agg = 95 => clusters[c].priority = "critical"
                /\ clusters[c].agg = 85 => clusters[c].priority = "high"
                /\ clusters[c].agg = 64 => clusters[c].priority = "medium"
                /\ sendCalls[c] = 1 <=> (~opts[p].skipAlerts /\ clusters[c].agg >= 80)
                /\ clusters[c].alert_sent => sendCalls[c] = 1
                /\ (sendCalls[c] = 1 /\ result[p].errors = <<>>) => clusters[c].alert_sent
          /\ E2ELaterRun(p) =>
                /\ created[p] = <<>>
                /\ result[p].alertsSent = 0
                /\ hist[p].sendOk = {} /\ hist[p].sendFailed = {}

\* a second run with alerts enabled has finished after the first one blended the
\* item's severity with technical_severity 80, clustered it and alerted once
C16_Witness ==
    \E p \in Procs :
        /\ E2ELaterRun(p) /\ ~opts[p].skipAlerts /\ ops = 0
        /\ items[E2EItem].sev = 85
        /\ LET c == items[E2EItem].cid IN
           /\ c # NoCluster
           /\ clusters[c].agg = 85 /\ clusters[c].priority = "high"
           /\ clusters[c].alert_sent /\ sendCalls[c] = 1

\* ------------------------------------------------------------------------
\* Overlapping runs (SpecOverlap)
\* ------------------------------------------------------------------------
\* C20: runs started through the entry points never race on a pending item: even
\* when two runs overlap, and with no failure anywhere, no item is classified by
\* both, no item is listed by two clusters and no cluster is alerted twice.
C20_NoOverlapRace ==
    fails = 0 =>
        /\ \A p, q \in Procs :
              p # q => SeqSet(classified[p]) \cap SeqSet(classified[q]) = {}
        /\ \A i \in ItemIds : Cardinality(Owners(i)) <= 1
        /\ \A c \in ClusterIds : sendCalls[c] <= 1

\* ------------------------------------------------------------------------
\* Interrupted runs (SpecInterrupt)
\* ------------------------------------------------------------------------
\* C21: whenever a run has completed with no database failure anywhere, also
\* after an earlier run was interrupted at one of its awaits, no item is listed by
\* two clusters and every stored cluster's priority is the bucket of its
\* aggregate_severity.
C21_InterruptedRunResumable ==
    \A p \in Procs :
        (/\ pc[p] = "done" /\ outcome[p] = "resolved"
         /\ result[p].success
         /\ fails = 0)
        => /\ \A i \in ItemIds : Cardinality(Owners(i)) <= 1
           /\ \A c \in ClusterIds :
                 Stored(c) => clusters[c].priority = PriorityOf(clusters[c].agg)

\* ------------------------------------------------------------------------
\* The blend over serialized runs
\* ------------------------------------------------------------------------
\* C22: over serialized runs, also when a later stage fails, the blend is applied
\* to an item at most once: once an item's stored severity differs from the one
\* written at ingestion, no step changes it again.
C22_BlendAtMostOnce ==
    [][\A i \in ItemIds :
          (items[i].status # "absent" /\ items[i].sev # InitSev(i))
          => items'[i].sev = items[i].sev]_vars

AlignChunk(k) == ((k - 1) \div FnChunkSize) + 1
AlignPlace(k) == ((k - 1) % FnChunkSize) + 1

\* the response for k's chunk holds a result for position k
HasResult(k) ==
    LET r == fn.responses[AlignChunk(k)]
    IN AlignPlace(k) <= Len(r) /\ ~r[AlignPlace(k)].null

\* the severity k's result gives item k
AlignedSeverity(k) ==
    LET c == fn.responses[AlignChunk(k)][AlignPlace(k)]
    IN IF c.tech > 0 THEN Blend(c.tech, fn.items[k].sev) ELSE fn.items[k].sev

\* the save of item k, or of an earlier item of its chunk, rejects
SaveRejected(k) ==
    \E m \in 1..k :
        /\ AlignChunk(m) = AlignChunk(k)
        /\ HasResult(m)
        /\ ~ValidItemSeverity(AlignedSeverity(m))

\* C24: results are aligned by position: in each chunk the j-th result is
\* applied to the j-th item and to no other (when the saves of the chunk
\* succeed), chunks are taken in fetch order, and an item without a result is
\* left unmodified and pending, not classified.
C24_ResultsAlignedByPosition ==
    fn.op = "classify" =>
        /\ Len(fn.out.docs) = Len(fn.items)
        /\ \A k \in 1..Len(fn.items) :
              /\ fn.out.docs[k].status = "pending"
              /\ ~HasResult(k) =>
                    /\ fn.out.docs[k] = fn.items[k]
                    /\ k \notin SeqSet(fn.out.classified)
              /\ (HasResult(k) /\ ~SaveRejected(k)) =>
                    LET c == fn.responses[AlignChunk(k)][AlignPlace(k)] IN
                    /\ fn.out.docs[k].ftype = c.ftype
                    /\ fn.out.docs[k].sent = {c.sent}
                    /\ fn.out.docs[k].sev = AlignedSeverity(k)
                    /\ k \in SeqSet(fn.out.classified)
        /\ \A a, b \in 1..Len(fn.out.classified) :
              a < b => fn.out.classified[a] < fn.out.classified[b]

\* three items in two chunks: the first chunk's response holds two different
\* results, each applied to its own item, the second chunk's response is empty
\* and its item is left as it was
C24_Witness ==
    /\ fn.op = "classify"
    /\ Len(fn.items) = 3
    /\ fn.responses[1] = <<LLMResult(80), LLMResult(0)>>
    /\ fn.responses[2] = <<>>
    /\ fn.out.docs[1].sev = AlignedSeverity(1)
    /\ fn.out.docs[2].sev = fn.items[2].sev /\ fn.out.docs[2].ftype = "bug"
    /\ fn.out.docs[3] = fn.items[3]
    /\ fn.out.classified = <<1, 2>>

\* ------------------------------------------------------------------------
\* One cluster per classified item
\* ------------------------------------------------------------------------
\* clusterItems of run p has returned its clusters
ClusterStageDone(p) ==
    \/ pc[p] \in {"alert", "asave"}
    \/ Returned(p) /\ result[p].success

C26_TitleIsClassificationSummary ==
    \A p \in Procs :
        (ClusterStageDone(p) /\ Len(pend[p]) = 1 /\ Len(created[p]) = 1) =>
            LET c == created[p][1]
                r == resp[p][1]
            IN clusters[c].title = IF r.summary # "" THEN r.summary ELSE DefaultTitle

\* ------------------------------------------------------------------------
\* Idempotence of the recomputation (SpecFn)
\* ------------------------------------------------------------------------
\* C27: a recomputation of a cluster's metrics run twice, with the same members
\* and severities, leaves after the second run the metrics, aggregate_severity,
\* priority and trend of the first.
C27_RecomputeIdempotent ==
    fn.op = "twice" => fn.second = fn.first

\* updateClusterMetrics has run twice on a cluster with several members: the
\* first run changed the document, the second left it as the first did
C27_Witness ==
    /\ fn.op = "twice" /\ fn.method = "updateClusterMetrics"
    /\ Len(fn.severities) >= 2
    /\ fn.first # fn.cluster
    /\ fn.first.trend = "rising"
    /\ fn.second = fn.first

\* ------------------------------------------------------------------------
\* The trend rule (SpecFn)
\* ------------------------------------------------------------------------
\* C28: updateTrends follows the reference rule on every member list: fewer than
\* 5 members keep the stored trend; otherwise, with the members in descending
\* creation order, the first floor(n/2) are the recent half and the rest the
\* older half, and the trend is rising when the recent mean exceeds the older
\* mean by more than 10, declining when it is lower by more than 10 and stable
\* otherwise, a difference of exactly 10 or -10 included.
C28_TrendRule ==
    fn.op = "trend" =>
        LET q == fn.severities
            n == Len(q)
            h == n \div 2
            recent == ListSum([k \in 1..h |-> q[k]])
            older == ListSum([k \in 1..(n - h) |-> q[h + k]])
            \* recent / h - older / (n - h), times h * (n - h)
            d == recent * (n - h) - older * h
        IN fn.out = IF n < 5 THEN fn.trend
                    ELSE IF d > 10 * h * (n - h) THEN "rising"
                    ELSE IF d < -(10 * h * (n - h)) THEN "declining"
                    ELSE "stable"

\* ------------------------------------------------------------------------
\* Terminal clusters (SpecFix)
\* ------------------------------------------------------------------------
\* C29: a cluster whose status is resolved, wont_fix or rejected is left as it
\* is, status included, by every step of analyze, updateTrends,
\* generateFixesForCriticalClusters and generateFix (the steps that are not an
\* operator's request, which alone spend the operator budget).
C29_TerminalClustersSkipped ==
    [][ops' = ops =>
         \A c \in ClusterIds :
             clusters[c].status \in {"resolved", "wont_fix", "rejected"}
             => clusters'[c] = clusters[c]]_vars

\* ------------------------------------------------------------------------
\* Ingestion (SpecFn)
\* ------------------------------------------------------------------------
\* C30: every FeedbackItem an ingestion path stores (URL, file and text
\* ingestion through processAndSave, and the external widget endpoint) has
\* status pending and a normalized_severity equal to
\* normalizeSeverity(source, metadata, {postedAt, content}) of that item.
C30_IngestedWithNormalizedSeverity ==
    fn.op = "ingest" =>
        /\ fn.item.status = "pending"
        /\ fn.item.sev = normalizeSeverity(fn.source, fn.meta,
                             IngestOptions(fn.postedAt, fn.content), fn.now)

====
